---- MODULE Spec2Model ----
\* Model of the EFNMR acquisition pipeline of src/NMR.py: the serial worker
\* thread (serial_worker), the periodic refresh callback (update_plot) and the
\* main thread (main), sharing data_queue and stop_event.
EXTENDS Integers, Sequences, FiniteSets, TLC

\* ---------------------------------------------------------------- constants
\* src/NMR.py:13
SAMPLE_RATE == 10000
\* src/NMR.py:27, the token of the ready test: the empty string
READY_TOKEN == <<>>
\* src/NMR.py:41, the start-of-data marker, word by word
START_MARKER == <<"Starting", "data", "read">>
\* src/NMR.py:51, the mask 0x0FFF has 12 bits: a 12-bit value is below MASK_MOD
MASK_MOD == 4096
\* IEEE-754 binary64: bits of the significand (Python float)
MANT_BITS == 53

\* ---------------------------------------------------------------- bounds
\* the read durations (ms) of the requests of Spec are -MaxNegReadMs..MaxReadMs
MaxReadMs == 1
MaxNegReadMs == 1

\* ------------------------------------------------- binary64 arithmetic
\* A positive binary64 value is [man, exp]: man is the 53-bit significand, most
\* significant bit first, man[1] = 1, and the value is man * 2^(exp - 52).

RECURSIVE Normalise(_, _, _)
\* a/b scaled by a power of two into [1,2): <<a', b', e>> with a/b = a'/b' * 2^e
Normalise(a, b, e) ==
    IF a >= 2 * b THEN Normalise(a, 2 * b, e + 1)
    ELSE IF a < b THEN Normalise(2 * a, b, e - 1)
    ELSE <<a, b, e>>

\* 2^j mod b for 0 <= j <= 60
Pow2Mod(j, b) ==
    IF j <= 30 THEN (2 ^ j) % b
    ELSE (((2 ^ 30) % b) * ((2 ^ (j - 30)) % b)) % b

\* the remainder left after n further bits of rem/b: (rem * 2^n) mod b, for
\* rem < b < 46341 (the products stay below 2^31)
DivRem(rem, b, n) == (rem * Pow2Mod(n, b)) % b

\* the next n bits of rem/b (rem < b), most significant first
DivBits(rem, b, n) ==
    [i \in 1..n |-> IF 2 * DivRem(rem, b, i - 1) >= b THEN 1 ELSE 0]

\* bits (most significant first, not all ones) plus one
IncBits(bits) ==
    LET z == CHOOSE i \in 1..Len(bits) :
                 bits[i] = 0 /\ \A j \in (i + 1)..Len(bits) : bits[j] = 1
    IN [i \in 1..Len(bits) |-> IF i < z THEN bits[i] ELSE IF i = z THEN 1 ELSE 0]

\* round to nearest, ties to even: man rounded up when up is TRUE
RoundMan(man, exp, up) ==
    IF ~up THEN [man |-> man, exp |-> exp]
    ELSE IF \A i \in 1..Len(man) : man[i] = 1
         THEN [man |-> [i \in 1..Len(man) |-> IF i = 1 THEN 1 ELSE 0], exp |-> exp + 1]
         ELSE [man |-> IncBits(man), exp |-> exp]

\* the binary64 quotient of the positive integers a and b
FloatDiv(a, b) ==
    LET n == Normalise(a, b, 0)
        man == <<1>> \o DivBits(n[1] - n[2], n[2], MANT_BITS - 1)
        rem == DivRem(n[1] - n[2], n[2], MANT_BITS - 1)
        up == \/ 2 * rem > n[2]
              \/ (2 * rem = n[2] /\ man[MANT_BITS] = 1)
    IN RoundMan(man, n[3], up)

\* the w binary digits of v < 2^w, most significant first
FixBits(v, w) == [i \in 1..w |-> (v \div (2 ^ (w - i))) % 2]

\* the number of binary digits of a natural below 2^30; 0 has none
BitLen(v) == CHOOSE l \in 0..30 : v < 2 ^ l /\ (l = 0 \/ v >= 2 ^ (l - 1))

RECURSIVE BitsNat(_)
\* the natural (below 2^31) whose binary digits, most significant first, are bits
BitsNat(bits) ==
    IF bits = <<>> THEN 0
    ELSE IF Len(bits) = 1 THEN bits[1]
    ELSE LET h == Len(bits) \div 2
         IN BitsNat(SubSeq(bits, 1, h)) * (2 ^ (Len(bits) - h))
            + BitsNat(SubSeq(bits, h + 1, Len(bits)))

\* the digits of the significand are multiplied 13 at a time
LIMB == 8192

\* the binary64 product of the positive integer k < 2^17 (exact as a float) and
\* x: the long multiplication of the significand, then the rounding to 53 bits
FloatMulInt(k, x) ==
    LET l(j) == BitsNat(SubSeq(x.man, 13 * j - 11, 13 * j + 1))
        t4 == l(4) * k
        t3 == l(3) * k + (t4 \div LIMB)
        t2 == l(2) * k + (t3 \div LIMB)
        t1 == l(1) * k + (t2 \div LIMB)
        t0 == x.man[1] * k + (t1 \div LIMB)
        prod == FixBits(t0, BitLen(t0)) \o FixBits(t1 % LIMB, 13)
                \o FixBits(t2 % LIMB, 13) \o FixBits(t3 % LIMB, 13)
                \o FixBits(t4 % LIMB, 13)
        drop == Len(prod) - MANT_BITS
        man == SubSeq(prod, 1, MANT_BITS)
        up == /\ drop > 0
              /\ prod[MANT_BITS + 1] = 1
              /\ \/ man[MANT_BITS] = 1
                 \/ \E i \in (MANT_BITS + 2)..Len(prod) : prod[i] = 1
    IN RoundMan(man, x.exp + drop, up)

\* A float of the model's range as [sign, int, frac]: sign * (int + f) with
\* 0 <= f < 1 and frac telling whether f > 0 (exact for magnitudes below 2^31).
FloatParts(sign, x) ==
    LET keep == x.exp + 1
    IN IF keep <= 0
       THEN [sign |-> sign, int |-> 0, frac |-> TRUE]
       ELSE [sign |-> sign,
             int |-> BitsNat(SubSeq(x.man, 1, IF keep > MANT_BITS THEN MANT_BITS ELSE keep)),
             frac |-> \E i \in (keep + 1)..MANT_BITS : x.man[i] = 1]

\* SAMPLE_RATE * (read_ms / 1000.0), src/NMR.py:45, in binary64
FloatSamples(read) ==
    IF read = 0 THEN [sign |-> 0, int |-> 0, frac |-> FALSE]
    ELSE LET mag == IF read < 0 THEN 0 - read ELSE read
         IN FloatParts(IF read < 0 THEN -1 ELSE 1,
                       FloatMulInt(SAMPLE_RATE, FloatDiv(mag, 1000)))

\* the read durations (ms) of the requests of SpecLong
LongReads == {35}

\* the read durations (ms) of all requests of the model
ReadDurations == ((0 - MaxNegReadMs)..MaxReadMs) \cup LongReads

\* FloatSamples tabulated over the read durations of the model
SamplesTable == {<<r, FloatSamples(r)>> : r \in ReadDurations}

\* samples_to_read as src/NMR.py:45 computes it from read_ms
SamplesToRead(read) == (CHOOSE p \in SamplesTable : p[1] = read)[2]

\* the comparison  n < x  of an integer n and a float x, src/NMR.py:47
IntLessFloat(n, x) ==
    IF x.sign >= 0 THEN n < x.int \/ (n = x.int /\ x.frac)
    ELSE n + x.int < 0

\* ------------------------------------------------------------ text helpers
\* A string is the sequence of its characters (argv tokens, the command) or of
\* its words (device lines); the empty string is <<>>.

\* sub in s (Python's  sub in s): sub occurs in s as a contiguous run
Contains(sub, s) ==
    \E i \in 0..(Len(s) - Len(sub)) : SubSeq(s, i + 1, i + Len(sub)) = sub

Whitespace == {" ", "\n", "\r", "\t"}

RECURSIVE Strip(_)
\* str.strip(): leading and trailing whitespace removed
Strip(s) ==
    IF s = <<>> THEN s
    ELSE IF Head(s) \in Whitespace THEN Strip(Tail(s))
    ELSE IF s[Len(s)] \in Whitespace THEN Strip(SubSeq(s, 1, Len(s) - 1))
    ELSE s

\* a byte run that is not valid UTF-8
BAD == "\\xff"

\* bytes.decode('utf-8') raises UnicodeDecodeError on an invalid byte
Decodable(b) == \A i \in 1..Len(b) : b[i] # BAD

\* bytes.decode('utf-8', errors='ignore') drops the invalid bytes
RECURSIVE DecodeIgnore(_)
DecodeIgnore(b) ==
    IF b = <<>> THEN <<>>
    ELSE IF Head(b) = BAD THEN DecodeIgnore(Tail(b))
    ELSE <<Head(b)>> \o DecodeIgnore(Tail(b))

Digits == <<"0", "1", "2", "3", "4", "5", "6", "7", "8", "9">>

IsDigit(c) == \E d \in 1..10 : Digits[d] = c

DigitVal(c) == (CHOOSE d \in 1..10 : Digits[d] = c) - 1

RECURSIVE NatStr(_)
NatStr(n) ==
    IF n < 10 THEN <<Digits[n + 1]>>
    ELSE NatStr(n \div 10) \o <<Digits[(n % 10) + 1]>>

\* str(n) of an int, as the f-string of src/NMR.py:32 formats it
IntStr(n) == IF n < 0 THEN <<"-">> \o NatStr(0 - n) ELSE NatStr(n)

RECURSIVE DigitsVal(_)
DigitsVal(s) ==
    IF s = <<>> THEN 0
    ELSE 10 * DigitsVal(SubSeq(s, 1, Len(s) - 1)) + DigitVal(s[Len(s)])

\* int(tok), src/NMR.py:106: [ok, val]; not ok is Python's ValueError
ParseInt(tok) ==
    LET signed == tok # <<>> /\ Head(tok) \in {"-", "+"}
        body == IF signed THEN Tail(tok) ELSE tok
    IN IF body # <<>> /\ \A i \in 1..Len(body) : IsDigit(body[i])
       THEN [ok |-> TRUE,
             val |-> IF signed /\ Head(tok) = "-" THEN 0 - DigitsVal(body)
                     ELSE DigitsVal(body)]
       ELSE [ok |-> FALSE, val |-> 0]

\* f"NMR({pulse_ms},{read_ms})\n", src/NMR.py:32
Command(pulse, read) ==
    <<"N", "M", "R", "(">> \o IntStr(pulse) \o <<",">> \o IntStr(read) \o <<")", "\n">>

\* ------------------------------------------------------------ environment
\* What a readline() of the device may return: a line, word by word, or the
\* empty byte string when the 2 s timeout (src/NMR.py:22) expires.
TIMEOUT_LINE == <<>>

DeviceLines ==
    { TIMEOUT_LINE,
      <<"Pico", "ready", "\n">>,
      <<"Starting", "data", "read", "\n">>,
      <<BAD, "Starting", "data", "read", "\n">> }

\* What the device may send on connect: nothing, its greeting, or noise
HandshakeLines ==
    { TIMEOUT_LINE,
      <<"Pico", "ready", "\n">>,
      <<BAD, "\n">> }

\* the sync bits (bits 12..15) the device may set on a frame
SyncNibbles == {0, 15}

\* the 12 data bits of the device's first frame (0x1A3); frame i carries
\* FIRST_SAMPLE + i, so that every sample of a run is distinguishable
FIRST_SAMPLE == 419

\* the two bytes on the wire of frame number i with sync bits hi
FrameBytes(i, hi) ==
    LET v == hi * MASK_MOD + ((FIRST_SAMPLE + i) % MASK_MOD)
    IN <<v % 256, v \div 256>>

\* struct.unpack('<H', raw_bytes), src/NMR.py:50
Unpack(b) == b[1] + 256 * b[2]

\* src/NMR.py:51, the mask 0x0FFF
MASK == 4095

\* the width (bits) of the unsigned short of struct.unpack('<H'), src/NMR.py:50
FRAME_BITS == 16

\* a & b of two naturals below 2^FRAME_BITS: the bit of weight p is set in the
\* result when it is set in a and in b, for each of the FRAME_BITS weights
BitAnd(a, b) ==
    LET t(p) == IF (b \div p) % 2 = 1 /\ (a \div p) % 2 = 1 THEN p ELSE 0
    IN t(1) + t(2) + t(4) + t(8) + t(16) + t(32) + t(64) + t(128)
       + t(256) + t(512) + t(1024) + t(2048) + t(4096) + t(8192)
       + t(16384) + t(32768)

\* mutant of Mask: the mask is 0x1FFF, which keeps the lowest sync bit
Mask_Keep13(sample) == BitAnd(sample, 2 * MASK + 1)

\* sample & 0x0FFF, src/NMR.py:51
Mask(sample) == BitAnd(sample, MASK)

\* --------------------------------------------------------- spectral engine
\* np.fft.fftfreq(n, 1/SAMPLE_RATE), src/NMR.py:85: the signed bin numbers
\* 0..(n-1)//2 followed by -(n//2)..-1, each times SAMPLE_RATE/n. A frequency
\* is the pair <<numerator, denominator>> with a positive denominator.
FftFreq(n) ==
    LET half == ((n - 1) \div 2) + 1
        p1 == [i \in 1..half |-> i - 1]
        p2 == [i \in 1..(n - half) |-> (0 - (n \div 2)) + (i - 1)]
    IN [i \in 1..n |-> <<(p1 \o p2)[i] * SAMPLE_RATE, n>>]

\* the members of a finite set of integers as an ascending sequence
Ascending(S) ==
    [i \in 1..Cardinality(S) |->
        CHOOSE x \in S : Cardinality({y \in S : y < x}) = i - 1]

\* mutant of PositiveFreqIndices: the test is > 0, so that bin 0 is dropped
PositiveFreqIndices_Strict(freq) ==
    Ascending({i \in 1..Len(freq) : freq[i][1] > 0})

\* mutant of PositiveFreqIndices: no test, every bin of the transform is kept
PositiveFreqIndices_All(freq) ==
    Ascending({i \in 1..Len(freq) : TRUE})

\* np.where(fft_freq >= 0), src/NMR.py:88: the (1-based) places kept, ascending
PositiveFreqIndices(freq) ==
    Ascending({i \in 1..Len(freq) : freq[i][1] >= 0})

\* np.abs(np.fft.fft(all_samples)), src/NMR.py:81-82: the magnitude of bin k of
\* the transform of the n accumulated samples is kept as the pair <<k, n>>
FftMagnitude(n) == [i \in 1..n |-> <<i - 1, n>>]

\* arr[indices]
Take(arr, idx) == [i \in 1..Len(idx) |-> arr[idx[i]]]

\* ------------------------------------------------------------------ state
VARIABLES
    argv,             \* sys.argv
    mpc,              \* main's position
    exit_status,      \* the process exit status main has set (0: none yet)
    usage_printed,    \* whether main printed the usage message
    pulse_ms,         \* main's parsed arguments
    read_ms,
    stop_event,       \* threading.Event: is_set()
    data_queue,       \* queue.Queue contents, oldest first
    wpc,              \* serial_worker's position
    opens,            \* how often the transport was opened
    written,          \* what was written to the transport, in order
    initial_message,  \* serial_worker's locals
    line,
    samples_to_read,
    samples_read,
    raw_bytes,
    exc,              \* the exception serial_worker is unwinding with
    upc,              \* update_plot's position
    new_data,         \* update_plot's local
    all_samples,      \* the accumulator
    line_time,        \* the display's time-domain series
    line_fft,         \* the display's spectral frame
    pushed,           \* history: every value put on the queue, in order
    drain_start,      \* history: the queue contents when the drain began
    reads_after_stop, \* history: frame reads begun with stop_event set
    puts_after_stop   \* history: puts done with stop_event set

vars ==
    <<argv, mpc, exit_status, usage_printed, pulse_ms, read_ms, stop_event,
      data_queue, wpc, opens, written, initial_message, line, samples_to_read,
      samples_read, raw_bytes, exc, upc, new_data, all_samples, line_time,
      line_fft, pushed, drain_start, reads_after_stop, puts_after_stop>>

mainVars == <<argv, mpc, exit_status, usage_printed, pulse_ms, read_ms>>

workerLocals ==
    <<opens, written, initial_message, line, samples_to_read, samples_read,
      raw_bytes, exc>>

plotVars == <<upc, new_data, all_samples, line_time, line_fft, drain_start>>

history == <<pushed, reads_after_stop, puts_after_stop>>

\* ------------------------------------------------------------------- Init
ProgName == <<"N", "M", "R", ".", "p", "y">>

\* the pulse duration (ms) of the requests of the model
PulseMs == 5

\* the argument vectors tried: too few, too many, a read duration that is no
\* number, and well-formed vectors with the read durations of reads
ArgVectors(reads) ==
    { <<ProgName>>,
      <<ProgName, IntStr(PulseMs)>>,
      <<ProgName, IntStr(PulseMs), IntStr(PulseMs), IntStr(PulseMs)>>,
      <<ProgName, IntStr(PulseMs), <<"x">>>> }
    \cup { <<ProgName, IntStr(PulseMs), IntStr(r)>> : r \in reads }

NoFrame == [xdata |-> <<>>, ydata |-> <<>>]

InitWith(reads) ==
    /\ argv \in ArgVectors(reads)
    /\ mpc = "args"
    /\ exit_status = 0
    /\ usage_printed = FALSE
    /\ pulse_ms = 0
    /\ read_ms = 0
    /\ stop_event = FALSE
    /\ data_queue = <<>>
    /\ wpc = "unstarted"
    /\ opens = 0
    /\ written = <<>>
    /\ initial_message = <<>>
    /\ line = <<>>
    /\ samples_to_read = [sign |-> 0, int |-> 0, frac |-> FALSE]
    /\ samples_read = 0
    /\ raw_bytes = <<>>
    /\ exc = "none"
    /\ upc = "idle"
    /\ new_data = <<>>
    /\ all_samples = <<>>
    /\ line_time = NoFrame
    /\ line_fft = NoFrame
    /\ pushed = <<>>
    /\ drain_start = <<>>
    /\ reads_after_stop = 0
    /\ puts_after_stop = 0

Init == InitWith((0 - MaxNegReadMs)..MaxReadMs)

\* ------------------------------------------------------------------- main
\* src/NMR.py:103-106: the argument count test and the two int() conversions
MainArgs ==
    /\ mpc = "args"
    /\ IF Len(argv) # 3
       THEN /\ usage_printed' = TRUE
            /\ exit_status' = 1
            /\ mpc' = "exited"
            /\ UNCHANGED <<pulse_ms, read_ms>>
       ELSE LET p == ParseInt(argv[2])
                r == ParseInt(argv[3])
            IN IF p.ok /\ r.ok
               THEN /\ pulse_ms' = p.val
                    /\ read_ms' = r.val
                    /\ mpc' = "start"
                    /\ UNCHANGED <<usage_printed, exit_status>>
               ELSE \* ValueError, uncaught: traceback, exit status 1
                    /\ exit_status' = 1
                    /\ mpc' = "exited"
                    /\ UNCHANGED <<usage_printed, pulse_ms, read_ms>>
    /\ UNCHANGED <<argv, stop_event, data_queue, wpc, workerLocals, plotVars, history>>

\* src/NMR.py:108-138: plot set-up, all_samples = [], the event, worker.start()
MainStart ==
    /\ mpc = "start"
    /\ mpc' = "show"
    /\ wpc' = "connect"
    /\ stop_event' = FALSE
    /\ all_samples' = <<>>
    /\ line_time' = NoFrame
    /\ line_fft' = NoFrame
    /\ UNCHANGED <<argv, exit_status, usage_printed, pulse_ms, read_ms, data_queue,
                   workerLocals, upc, new_data, drain_start, history>>

\* src/NMR.py:140: plt.show() returns when the window is closed; the event loop
\* runs update_plot to its end, so no refresh is under way then
DisplayClose ==
    /\ mpc = "show"
    /\ upc = "idle"
    /\ mpc' = "cleanup"
    /\ UNCHANGED <<argv, exit_status, usage_printed, pulse_ms, read_ms, stop_event,
                   data_queue, wpc, workerLocals, plotVars, history>>

\* src/NMR.py:143-144
MainSetStop ==
    /\ mpc = "cleanup"
    /\ stop_event' = TRUE
    /\ mpc' = "join"
    /\ UNCHANGED <<argv, exit_status, usage_printed, pulse_ms, read_ms, data_queue,
                   wpc, workerLocals, plotVars, history>>

\* mutant of MainJoin: main does not wait for the worker
MainJoin_NoWait ==
    /\ mpc = "join"
    /\ mpc' = "finished"
    /\ UNCHANGED <<argv, exit_status, usage_printed, pulse_ms, read_ms, stop_event,
                   data_queue, wpc, workerLocals, plotVars, history>>

\* src/NMR.py:145-146: worker.join() returns once the thread has ended
MainJoin ==
    /\ mpc = "join"
    /\ wpc = "done"
    /\ mpc' = "finished"
    /\ UNCHANGED <<argv, exit_status, usage_printed, pulse_ms, read_ms, stop_event,
                   data_queue, wpc, workerLocals, plotVars, history>>

\* ---------------------------------------------------------- serial_worker
workerRest == <<mainVars, data_queue, plotVars>>

\* mutant of WorkerConnect: a failed open is tried once more
WorkerConnect_Retry ==
    /\ wpc = "connect"
    /\ opens' = opens + 1
    /\ \/ wpc' = "handshake" /\ exc' = exc
       \/ wpc' = (IF opens = 0 THEN "connect" ELSE "finally")
          /\ exc' = (IF opens = 0 THEN exc ELSE "SerialException")
    /\ UNCHANGED <<workerRest, stop_event, written, initial_message, line,
                   samples_to_read, samples_read, raw_bytes, history>>

\* src/NMR.py:22-23: open the port and flush its input, or SerialException
WorkerConnect ==
    /\ wpc = "connect"
    /\ opens' = opens + 1
    /\ \/ wpc' = "handshake" /\ exc' = exc
       \/ wpc' = "finally" /\ exc' = "SerialException"
    /\ UNCHANGED <<workerRest, stop_event, written, initial_message, line,
                   samples_to_read, samples_read, raw_bytes, history>>

\* src/NMR.py:24-25: the first line, strictly decoded and stripped
WorkerHandshake ==
    /\ wpc = "handshake"
    /\ \/ \E b \in HandshakeLines :
            IF Decodable(b)
            THEN /\ initial_message' = Strip(b)
                 /\ wpc' = "ready_test"
                 /\ exc' = exc
            ELSE /\ initial_message' = initial_message
                 /\ wpc' = "finally"
                 /\ exc' = "UnicodeDecodeError"
       \/ /\ wpc' = "finally"
          /\ exc' = "SerialException"
          /\ initial_message' = initial_message
    /\ UNCHANGED <<workerRest, stop_event, opens, written, line, samples_to_read,
                   samples_read, raw_bytes, history>>

\* src/NMR.py:27-29: return unless the ready token is in the first line
WorkerReadyTest ==
    /\ wpc = "ready_test"
    /\ wpc' = IF ~Contains(READY_TOKEN, initial_message) THEN "finally" ELSE "send"
    /\ UNCHANGED <<workerRest, stop_event, workerLocals, history>>

\* src/NMR.py:32-34: write the command, or SerialException
WorkerSend ==
    /\ wpc = "send"
    /\ \/ /\ written' = Append(written, Command(pulse_ms, read_ms))
          /\ wpc' = "status_test"
          /\ exc' = exc
       \/ /\ written' = written
          /\ wpc' = "finally"
          /\ exc' = "SerialException"
    /\ UNCHANGED <<workerRest, stop_event, opens, initial_message, line,
                   samples_to_read, samples_read, raw_bytes, history>>

\* src/NMR.py:37: while not stop_event.is_set()
StatusTest ==
    /\ wpc = "status_test"
    /\ wpc' = IF stop_event THEN "stream_init" ELSE "status_read"
    /\ UNCHANGED <<workerRest, stop_event, workerLocals, history>>

\* mutant of StatusRead: the loop is left by any line that is not empty
StatusRead_AnyLine ==
    /\ wpc = "status_read"
    /\ \/ \E b \in DeviceLines :
            LET l == Strip(DecodeIgnore(b))
            IN /\ line' = l
               /\ wpc' = IF l # <<>> THEN "stream_init" ELSE "status_test"
               /\ exc' = exc
       \/ /\ wpc' = "finally"
          /\ exc' = "SerialException"
          /\ line' = line
    /\ UNCHANGED <<workerRest, stop_event, opens, written, initial_message,
                   samples_to_read, samples_read, raw_bytes, history>>

\* src/NMR.py:38-42: one status line, leniently decoded and stripped; the loop
\* is left only by a line that holds the start marker
StatusRead ==
    /\ wpc = "status_read"
    /\ \/ \E b \in DeviceLines :
            LET l == Strip(DecodeIgnore(b))
            IN /\ line' = l
               /\ wpc' = IF l # <<>> /\ Contains(START_MARKER, l)
                         THEN "stream_init" ELSE "status_test"
               /\ exc' = exc
       \/ /\ wpc' = "finally"
          /\ exc' = "SerialException"
          /\ line' = line
    /\ UNCHANGED <<workerRest, stop_event, opens, written, initial_message,
                   samples_to_read, samples_read, raw_bytes, history>>

\* src/NMR.py:45-46
StreamInit ==
    /\ wpc = "stream_init"
    /\ samples_to_read' = SamplesToRead(read_ms)
    /\ samples_read' = 0
    /\ wpc' = "stream_test"
    /\ UNCHANGED <<workerRest, stop_event, opens, written, initial_message, line,
                   raw_bytes, exc, history>>

\* mutant of StreamTest: the loop condition does not look at stop_event
StreamTest_IgnoreStop ==
    /\ wpc = "stream_test"
    /\ wpc' = IF IntLessFloat(samples_read, samples_to_read)
              THEN "stream_read" ELSE "finally"
    /\ UNCHANGED <<workerRest, stop_event, workerLocals, history>>

\* src/NMR.py:47 (and 56 when the loop ends)
StreamTest ==
    /\ wpc = "stream_test"
    /\ wpc' = IF ~stop_event /\ IntLessFloat(samples_read, samples_to_read)
              THEN "stream_read" ELSE "finally"
    /\ UNCHANGED <<workerRest, stop_event, workerLocals, history>>

\* src/NMR.py:48-55: ser.read(2) gives the next frame, which is unpacked,
\* masked, put on the queue and counted; or fewer than two bytes when the
\* timeout expires (the loop is left); or SerialException
StreamRead ==
    /\ wpc = "stream_read"
    /\ reads_after_stop' = reads_after_stop + (IF stop_event THEN 1 ELSE 0)
    /\ \/ \E hi \in SyncNibbles :
            LET bytes == FrameBytes(samples_read, hi)
                value == Mask(Unpack(bytes))
            IN /\ raw_bytes' = bytes
               /\ pushed' = Append(pushed, value)
               /\ data_queue' = Append(data_queue, pushed'[Len(pushed')])
               /\ samples_read' = samples_read + 1
               /\ puts_after_stop' = puts_after_stop + (IF stop_event THEN 1 ELSE 0)
               /\ wpc' = "stream_test"
               /\ exc' = exc
       \/ \E n \in {0, 1} :
            /\ raw_bytes' = SubSeq(FrameBytes(samples_read, 0), 1, n)
            /\ wpc' = "finally"
            /\ exc' = exc
            /\ UNCHANGED <<data_queue, pushed, samples_read, puts_after_stop>>
       \/ /\ raw_bytes' = raw_bytes
          /\ wpc' = "finally"
          /\ exc' = "SerialException"
          /\ UNCHANGED <<data_queue, pushed, samples_read, puts_after_stop>>
    /\ UNCHANGED <<mainVars, plotVars, stop_event, opens, written, initial_message,
                   line, samples_to_read>>

\* mutant of WorkerFinally: the worker ends without setting the event
WorkerFinally_NoSet ==
    /\ wpc = "finally"
    /\ wpc' = "done"
    /\ UNCHANGED <<workerRest, stop_event, workerLocals, history>>

\* src/NMR.py:58-61: the handler only prints; finally sets the event
WorkerFinally ==
    /\ wpc = "finally"
    /\ stop_event' = TRUE
    /\ wpc' = "done"
    /\ UNCHANGED <<workerRest, workerLocals, history>>

\* ------------------------------------------------------------ update_plot
plotRest == <<mainVars, stop_event, wpc, workerLocals, history>>

\* src/NMR.py:65: a timer tick of the animation, while the window is open
UpdateBegin ==
    /\ mpc = "show"
    /\ upc = "idle"
    /\ new_data' = <<>>
    /\ drain_start' = data_queue
    /\ upc' = "drain_test"
    /\ UNCHANGED <<plotRest, data_queue, all_samples, line_time, line_fft>>

\* mutant of DrainTest: get() is called without the empty() test
DrainTest_NoCheck ==
    /\ upc = "drain_test"
    /\ upc' = "drain_get"
    /\ UNCHANGED <<plotRest, data_queue, new_data, all_samples, line_time, line_fft,
                   drain_start>>

\* mutant of DrainTest: the loop is never entered
DrainTest_Skip ==
    /\ upc = "drain_test"
    /\ upc' = "refresh"
    /\ UNCHANGED <<plotRest, data_queue, new_data, all_samples, line_time, line_fft,
                   drain_start>>

\* src/NMR.py:66: while not data_queue.empty()
DrainTest ==
    /\ upc = "drain_test"
    /\ upc' = IF data_queue = <<>> THEN "refresh" ELSE "drain_get"
    /\ UNCHANGED <<plotRest, data_queue, new_data, all_samples, line_time, line_fft,
                   drain_start>>

\* mutant of DrainGet: the value is read but stays on the queue
DrainGet_Peek ==
    /\ upc = "drain_get"
    /\ data_queue # <<>>
    /\ new_data' = Append(new_data, Head(data_queue))
    /\ upc' = "drain_test"
    /\ UNCHANGED <<plotRest, data_queue, all_samples, line_time, line_fft, drain_start>>

\* mutant of DrainGet: the newest value is taken instead of the oldest
DrainGet_Lifo ==
    /\ upc = "drain_get"
    /\ data_queue # <<>>
    /\ new_data' = Append(new_data, data_queue[Len(data_queue)])
    /\ data_queue' = SubSeq(data_queue, 1, Len(data_queue) - 1)
    /\ upc' = "drain_test"
    /\ UNCHANGED <<plotRest, all_samples, line_time, line_fft, drain_start>>

\* src/NMR.py:67: new_data.append(data_queue.get()); get() blocks while empty
DrainGet ==
    /\ upc = "drain_get"
    /\ data_queue # <<>>
    /\ new_data' = Append(new_data, Head(data_queue))
    /\ data_queue' = Tail(data_queue)
    /\ upc' = "drain_test"
    /\ UNCHANGED <<plotRest, all_samples, line_time, line_fft, drain_start>>

\* src/NMR.py:79-91: the spectral frame of n > 1 accumulated samples
SpectralFrame(n) ==
    LET fft_freq == FftFreq(n)
        positive_freq_indices == PositiveFreqIndices(fft_freq)
    IN [xdata |-> Take(fft_freq, positive_freq_indices),
        ydata |-> Take(FftMagnitude(n), positive_freq_indices)]

\* mutant of UpdateFinish: a refresh that drained nothing clears the display
UpdateFinish_Clear ==
    /\ upc = "refresh"
    /\ IF new_data = <<>>
       THEN /\ line_time' = NoFrame
            /\ line_fft' = NoFrame
            /\ UNCHANGED all_samples
       ELSE LET all == all_samples \o new_data
                n == Len(all)
            IN /\ all_samples' = all
               /\ line_time' = [xdata |-> [i \in 1..n |-> i - 1], ydata |-> all]
               /\ line_fft' = IF n > 1 THEN SpectralFrame(n) ELSE line_fft
    /\ new_data' = <<>>
    /\ drain_start' = <<>>
    /\ upc' = "idle"
    /\ UNCHANGED <<plotRest, data_queue>>

\* mutant of UpdateFinish: the accumulator is replaced by the drained samples
UpdateFinish_Replace ==
    /\ upc = "refresh"
    /\ IF new_data = <<>>
       THEN UNCHANGED <<all_samples, line_time, line_fft>>
       ELSE LET all == new_data
                n == Len(all)
            IN /\ all_samples' = all
               /\ line_time' = [xdata |-> [i \in 1..n |-> i - 1], ydata |-> all]
               /\ line_fft' = IF n > 1 THEN SpectralFrame(n) ELSE line_fft
    /\ new_data' = <<>>
    /\ drain_start' = <<>>
    /\ upc' = "idle"
    /\ UNCHANGED <<plotRest, data_queue>>

\* src/NMR.py:69-100: nothing new: return; else extend and redraw both series
UpdateFinish ==
    /\ upc = "refresh"
    /\ IF new_data = <<>>
       THEN UNCHANGED <<all_samples, line_time, line_fft>>
       ELSE LET all == all_samples \o new_data
                n == Len(all)
            IN /\ all_samples' = all
               /\ line_time' = [xdata |-> [i \in 1..n |-> i - 1], ydata |-> all]
               /\ line_fft' = IF n > 1 THEN SpectralFrame(n) ELSE line_fft
    /\ new_data' = <<>>
    /\ drain_start' = <<>>
    /\ upc' = "idle"
    /\ UNCHANGED <<plotRest, data_queue>>

\* ------------------------------------------------------------ specification
MainStep == MainArgs \/ MainStart \/ DisplayClose \/ MainSetStop \/ MainJoin

WorkerStep ==
    \/ WorkerConnect \/ WorkerHandshake \/ WorkerReadyTest \/ WorkerSend
    \/ StatusTest \/ StatusRead \/ StreamInit \/ StreamTest \/ StreamRead
    \/ WorkerFinally

PlotStep == UpdateBegin \/ DrainTest \/ DrainGet \/ UpdateFinish

Next == MainStep \/ WorkerStep \/ PlotStep

Spec == Init /\ [][Next]_vars

\* The worker and main with the reads and the main thread's steps after the
\* window is closed always completing: each transport call returns (the reads
\* within the 2 s timeout of src/NMR.py:22) and both threads get to run.
FairSpec ==
    /\ Init
    /\ [][Next]_vars
    /\ WF_vars(WorkerStep)
    /\ WF_vars(MainSetStop)
    /\ WF_vars(MainJoin)

\* The refresh timer keeps firing while the window is open (FuncAnimation,
\* interval=100, src/NMR.py:137-140) and update_plot, once called, runs on.
RefreshSpec ==
    /\ Init
    /\ [][Next]_vars
    /\ WF_vars(PlotStep)

\* Long requests, with the refresh timer never firing: main and the worker only.
InitLong == InitWith(LongReads)

NextLong == MainStep \/ WorkerStep

SpecLong == InitLong /\ [][NextLong]_vars

\* Long requests, with the first timer tick after the worker has read all the
\* frames its loop asks for and ended (a window that is slow to come up): some
\* of the behaviours of the program.
LateRefresh ==
    /\ wpc = "done"
    /\ ~IntLessFloat(samples_read, samples_to_read)
    /\ PlotStep

NextLongDrain == MainStep \/ WorkerStep \/ LateRefresh

SpecLongDrain == InitLong /\ [][NextLongDrain]_vars

\* ================================================================= claims
\* samples_expected = sample_rate * read_ms / 1000, the request's sample count
SamplesExpected(read) == (SAMPLE_RATE * read) \div 1000

IsPrefix(s, t) == Len(s) <= Len(t) /\ SubSeq(t, 1, Len(s)) = s

\* C1 (as stated): in every reachable state the accumulator followed by the
\* queue contents is the sequence of samples pushed so far.
C1_AccumulatorThenQueue == all_samples \o data_queue = pushed

\* C1 (amended): in every reachable state the accumulator, followed by the
\* samples the refresh under way has already taken off the queue (new_data),
\* followed by the queue contents, is the sequence of samples pushed so far, in
\* push order; when no refresh is under way the accumulator followed by the
\* queue is that sequence.
C1_NoLossNoReorder ==
    /\ all_samples \o new_data \o data_queue = pushed
    /\ upc = "idle" => all_samples \o data_queue = pushed

C1_Witness ==
    /\ upc = "drain_get"
    /\ all_samples # <<>>
    /\ new_data # <<>>
    /\ Len(data_queue) > 1
    /\ wpc = "stream_read"

\* C2 (as stated, for the empty line of a read timeout): when the first line
\* read holds no ready token, no command is written and no sample is pushed.
C2_NoReadyNoCommand ==
    (wpc \notin {"unstarted", "connect", "handshake"} /\ initial_message = <<>>)
        => (written = <<>> /\ pushed = <<>>)

\* C3: when serial_worker has terminated, on whichever path, stop_event is set.
C3_FlagSetOnExit == wpc = "done" => stop_event

C3_Witness == wpc = "done" /\ mpc = "show" /\ exc = "UnicodeDecodeError"

\* the number of bins of the spectral frame on display
Bins == Len(line_fft.xdata)

\* C4 (as stated): with N accumulated samples the spectral frame has 0 bins if
\* N <= 1 and floor(N/2)+1 bins if N > 1.
C4_BinCountHalfPlusOne ==
    Bins = IF Len(all_samples) <= 1 THEN 0 ELSE (Len(all_samples) \div 2) + 1

\* C4 (amended): with N accumulated samples the spectral frame has 0 bins if
\* N <= 1 and floor((N-1)/2)+1 = ceil(N/2) bins if N > 1 (which is floor(N/2)+1
\* for odd N and N/2 for even N), with as many magnitudes as frequencies; the
\* bins kept are the k in [0,N) whose transform frequency is >= 0.
C4_BinCount ==
    LET N == Len(all_samples)
        signed(k) == IF 2 * k < N THEN k ELSE k - N
    IN /\ Bins = IF N <= 1 THEN 0 ELSE ((N - 1) \div 2) + 1
       /\ Len(line_fft.ydata) = Bins
       /\ N > 1 =>
            {line_fft.ydata[i][1] : i \in 1..Bins} = {k \in 0..(N - 1) : signed(k) >= 0}

C4_Witness == Len(all_samples) = 4 /\ Bins = 2 /\ upc = "idle"

\* C5 (as stated): once stop_event is set the worker does at most one further
\* frame read and puts no sample on the queue.
C5_NoPutAfterStop == reads_after_stop <= 1 /\ puts_after_stop = 0

\* C5 (amended): once stop_event is set the worker does at most one further
\* frame read, and at most one sample, the one of that read, is put on the
\* queue after the flag became set.
C5_AtMostOneAfterStop == reads_after_stop <= 1 /\ puts_after_stop <= 1

C5_Witness ==
    /\ wpc = "done"
    /\ reads_after_stop = 1
    /\ puts_after_stop = 1
    /\ Len(pushed) < SamplesExpected(read_ms)

\* C6 (as stated): a status read that times out (returns the empty line) sends
\* the worker to its exit path.
C6_StatusTimeoutFatal ==
    [][(wpc = "status_read" /\ wpc' # "status_read" /\ exc' = exc /\ line' = <<>>)
        => wpc' = "finally"]_vars

\* C7: main reaches its finished state only when the worker has terminated and
\* the flag is set; and once the display is closed main does finish.
C7_ShutdownCompletes ==
    /\ [](mpc = "finished" => (wpc = "done" /\ stop_event))
    /\ (mpc = "cleanup") ~> (mpc = "finished")

C7_Witness == mpc = "finished" /\ pushed # <<>> /\ exc = "none"

\* C8 (as stated): for read_ms > 0 the worker never pushes more than
\* samples_expected = sample_rate * read_ms / 1000 samples.
C8_PushedAtMostExpected ==
    read_ms > 0 => Len(pushed) <= SamplesExpected(read_ms)

\* C9 (as stated): once the flag is set no command is written.
C9_NoSendOnceCancelled == [][stop_event => written' = written]_vars

\* C10 (as stated): the output of a drain is exactly the queue contents at the
\* moment the drain began.
C10_DrainIsSnapshot == upc = "refresh" => new_data = drain_start

\* C10 (amended): the output of a drain begins with the samples that were in
\* the queue when the drain began, in their order; samples pushed while the
\* drain is under way may follow them in the same output.
C10_DrainExtendsSnapshot ==
    /\ upc \in {"drain_test", "drain_get", "refresh"} =>
            IsPrefix(drain_start, new_data \o data_queue)
    /\ upc = "refresh" => IsPrefix(drain_start, new_data)

C10_Witness ==
    /\ upc = "refresh"
    /\ drain_start # <<>>
    /\ Len(new_data) > Len(drain_start)

\* an argument vector that is not two positive integers
Malformed(av) ==
    \/ Len(av) # 3
    \/ \E i \in {2, 3} : ~ParseInt(av[i]).ok \/ ParseInt(av[i]).val <= 0

\* C11 (as stated): for an argument vector with a missing or an extra argument,
\* or with a duration that is not a positive integer, main prints the usage
\* message and exits with a non-zero status, and the worker is never started
\* and the transport never opened.
C11_MalformedArgsRejected ==
    Malformed(argv) =>
        /\ wpc = "unstarted"
        /\ opens = 0
        /\ mpc # "args" => (mpc = "exited" /\ usage_printed /\ exit_status # 0)

\* C12: a step of update_plot that starts and ends with nothing drained (the
\* entry, the test that finds the queue empty, the early return) changes
\* neither the accumulator nor the two displayed series nor the queue, and the
\* early return leaves update_plot as it was before the invocation.
C12_EmptyRefreshIsNoOp ==
    [][(upc' # upc /\ new_data = <<>> /\ new_data' = <<>>) =>
          /\ UNCHANGED <<all_samples, line_time, line_fft, data_queue>>
          /\ (upc = "refresh" => upc' = "idle")]_vars

C12_Witness ==
    /\ upc = "refresh"
    /\ new_data = <<>>
    /\ Len(all_samples) > 1
    /\ Bins > 0
    /\ line_time.ydata = all_samples

\* the values a 12-bit sample may take
SampleRange == 0..(MASK_MOD - 1)

\* C13: for every 16-bit frame value raw the masked value is raw mod 4096 and
\* lies in [0,4095] (0xF1A3 gives 419; the mask does not depend on the state,
\* so this is evaluated in one initial state); the sample pushed for a frame
\* is the frame's little-endian value mod 4096; and every value in the queue,
\* in a drain's output and in the accumulator lies in [0,4095].
C13_SamplesMasked ==
    /\ (mpc = "args" /\ argv = <<ProgName>>) =>
          /\ \A raw \in 0..(2 ^ FRAME_BITS - 1) :
                Mask(raw) = raw % MASK_MOD /\ Mask(raw) \in SampleRange
          /\ Mask(61859) = 419
    /\ Len(raw_bytes) = 2 =>
          /\ pushed # <<>>
          /\ pushed[Len(pushed)] = Unpack(raw_bytes) % MASK_MOD
    /\ \A i \in 1..Len(data_queue) : data_queue[i] \in SampleRange
    /\ \A i \in 1..Len(new_data) : new_data[i] \in SampleRange
    /\ \A i \in 1..Len(all_samples) : all_samples[i] \in SampleRange

C13_Witness ==
    /\ Len(raw_bytes) = 2
    /\ Unpack(raw_bytes) >= MASK_MOD
    /\ all_samples # <<>>
    /\ all_samples[1] = Unpack(FrameBytes(0, 15)) % MASK_MOD
    /\ data_queue # <<>>

\* C14: across every step the accumulator's previous value is a prefix of its
\* next value, and a step that changes it is the end of an update_plot
\* invocation, in which serial_worker does nothing.
C14_AccumulatorAppendOnly ==
    [][/\ IsPrefix(all_samples, all_samples')
       /\ all_samples' # all_samples =>
             /\ upc = "refresh" /\ upc' = "idle"
             /\ all_samples' = all_samples \o new_data
             /\ UNCHANGED <<wpc, workerLocals, pushed, data_queue>>]_vars

C14_Witness ==
    /\ upc = "refresh"
    /\ all_samples # <<>>
    /\ new_data # <<>>
    /\ line_time.ydata = all_samples

\* C15: with N > 1 accumulated samples the spectral frame has a first bin of
\* frequency 0, bin i (counted from 0) has the frequency i * SAMPLE_RATE / N,
\* every bin is non-negative and the bins are strictly ascending.
C15_BinsAscendingFromZero ==
    LET N == Len(all_samples)
        f == line_fft.xdata
    IN N > 1 =>
          /\ Bins > 0
          /\ f[1][1] = 0
          /\ \A i \in 1..Bins : f[i] = <<(i - 1) * SAMPLE_RATE, N>>
          /\ \A i \in 1..Bins : f[i][1] >= 0 /\ f[i][2] > 0
          /\ \A i \in 1..(Bins - 1) : f[i][1] * f[i + 1][2] < f[i + 1][1] * f[i][2]

C15_Witness == Len(all_samples) = 5 /\ Bins = 3 /\ upc = "idle" /\ wpc = "stream_read"

\* the phase of serial_worker at each of its positions: 1 open, 2 handshake,
\* 3 command send, 4 status, 5 streaming, 6 stop
PhaseRank(pc) ==
    CASE pc = "unstarted" -> 0
      [] pc = "connect" -> 1
      [] pc \in {"handshake", "ready_test"} -> 2
      [] pc = "send" -> 3
      [] pc \in {"status_test", "status_read"} -> 4
      [] pc \in {"stream_init", "stream_test", "stream_read"} -> 5
      [] pc = "finally" -> 6
      [] pc = "done" -> 7

\* C16: serial_worker never goes back to an earlier phase; it is in its status
\* or streaming phase only with the command written once on a transport opened
\* once; the status loop is left for the streaming phase only by a line that
\* holds the start marker or with the flag set; and a frame is read or a sample
\* pushed only when the last status line read holds the start marker, so after
\* a status loop left by cancellation no frame is read and nothing is pushed.
C16_PhaseOrder ==
    [][/\ PhaseRank(wpc') >= PhaseRank(wpc)
       /\ PhaseRank(wpc') \in {4, 5} => (Len(written') = 1 /\ opens' = 1)
       /\ (PhaseRank(wpc) = 4 /\ PhaseRank(wpc') = 5) =>
             (stop_event \/ Contains(START_MARKER, line'))
       /\ (wpc = "stream_read" \/ pushed' # pushed) => Contains(START_MARKER, line)
       /\ ~Contains(START_MARKER, line') =>
             (pushed' = <<>> /\ raw_bytes' = <<>> /\ wpc' # "stream_read")]_vars

C16_Witness ==
    /\ wpc = "done"
    /\ exc = "none"
    /\ Len(written) = 1
    /\ samples_to_read.int > 0
    /\ ~Contains(START_MARKER, line)
    /\ pushed = <<>>

\* C17: the transport is opened at most once and the command written at most
\* once; and once a transport call has failed (SerialException) serial_worker
\* does no transport operation and pushes nothing: its only further step is the
\* one that sets the flag and ends it.
C17_NoRetries ==
    [][/\ opens' <= 1
       /\ Len(written') <= 1
       /\ exc = "SerialException" =>
             /\ UNCHANGED <<opens, written, initial_message, line, raw_bytes,
                            samples_read, pushed, exc>>
             /\ wpc \in {"finally", "done"}
             /\ wpc' # wpc => (wpc = "finally" /\ wpc' = "done" /\ stop_event')]_vars

C17_Witness ==
    /\ wpc = "done"
    /\ exc = "SerialException"
    /\ stop_event
    /\ opens = 1
    /\ Len(written) = 1
    /\ pushed # <<>>
    /\ Len(pushed) < SamplesExpected(read_ms)

\* C18: with the refresh tick weakly fair, from some point on either the
\* display is not open or every sample pushed is in the accumulator, in push
\* order (so each sample pushed, also one still queued when the worker ended,
\* reaches the accumulator if the display stays open); and once the display is
\* closed the accumulator never changes and nothing leaves the queue, so the
\* samples queued then never reach the accumulator.
C18_PushedReachAccumulator ==
    /\ <>[](mpc # "show" \/ all_samples = pushed)
    /\ [][(mpc \in {"cleanup", "join", "finished"}) =>
             (all_samples' = all_samples /\ IsPrefix(data_queue, data_queue'))]_vars

C18_Witness ==
    /\ mpc = "show"
    /\ upc = "idle"
    /\ wpc = "done"
    /\ read_ms > 0
    /\ Len(pushed) = SamplesExpected(read_ms)
    /\ all_samples = pushed

\* C19: when update_plot is at its get() the queue is not empty, so the get()
\* can be done at once, whatever the worker did since the empty() test; and
\* a frame read that returns two bytes puts its sample on the queue in the same
\* step, whatever the queue holds.
C19_NeverBlocksOnQueue ==
    /\ [](upc = "drain_get" => (data_queue # <<>> /\ ENABLED DrainGet))
    /\ [][(wpc = "stream_read" /\ wpc' = "stream_test") =>
             (/\ Len(raw_bytes') = 2
              /\ data_queue' = Append(data_queue, Unpack(raw_bytes') % MASK_MOD)
              /\ Len(data_queue') = Len(data_queue) + 1)]_vars

C19_Witness ==
    /\ upc = "drain_get"
    /\ Len(data_queue) = 1
    /\ new_data # <<>>
    /\ wpc = "stream_read"
    /\ Len(pushed) > Len(drain_start) + Len(all_samples)

\* C20 (as stated, the bound on a drain): for read_ms > 0 a single drain does at
\* most samples_expected get() calls, so its output never holds more than
\* samples_expected samples.
C20_DrainAtMostExpected ==
    read_ms > 0 => Len(new_data) <= SamplesExpected(read_ms)

====
